---- MODULE Spec2Model ----
(***************************************************************************)
(* Model of the realtime session orchestrator (useLiveApi), of the         *)
(* grounded recommendation service (fetchAgriculturalRecommendations,      *)
(* zoomToLocation) and of their collaborators.                             *)
(*                                                                         *)
(* JavaScript runs one callback at a time: an action of this model is one run *)
(* of a callback from its start (or from the resumption of an await) to    *)
(* its next await or its end.                                              *)
(***************************************************************************)
EXTENDS Integers, Sequences, FiniteSets, TLC

(* ------------------------------ bounds -------------------------------- *)

\* tool-call batches received over a run
MaxBatches == 2
\* function calls received over a run, all batches together
MaxCalls == 2
\* client.connect calls (sessions) over a run
MaxSessions == 2
\* runs of the subscription effect (the first included)
MaxEffects == 2
\* turns streamed into the transcript by the other components
MaxStream == 1
\* markers the tools put on the map
MaxMarkers == 1

(* ------------------------------- state -------------------------------- *)

VARIABLES
    client,      \* the GenAILiveClient of the current render (its identity)
    effect,      \* the run of the subscription effect whose closures are live
    handlers,    \* the listeners registered on the clients' emitters
    connected,   \* useState(false)
    config,      \* useState<LiveConnectConfig>({})
    turns,       \* useLogStore: the transcript
    isAwaiting,  \* useLogStore: isAwaitingFunctionResponse
    markers,     \* useMapStore: the markers on the map
    sessions,    \* the connections the clients have opened, in order of creation
    batches,     \* the runs of onToolCall, in order of arrival
    sent,        \* the calls of client.sendToolResponse, in order
    lastConnect, \* the last call of the orchestrator's connect(): its config, its outcome
    envKey,      \* process.env.API_KEY as it is now ("" when absent)
    API_KEY,     \* the module's const API_KEY
    cameraTarget,      \* useMapStore: the camera target
    preventAutoFrame,  \* useMapStore: the flag that suppresses auto-framing
    fetches,     \* the calls of fetchAgriculturalRecommendations, in order
    groundings,  \* the calls of fetchMapsGroundedResponseSDK and ...REST, in order
    formData,    \* AgriculturalForm: useState<AgriculturalParameters>
    isSubmitting,  \* AgriculturalForm: useState(false)
    response,    \* AgriculturalForm: useState<string | null>(null)
    error,       \* AgriculturalForm: useState<string | null>(null)
    submits      \* AgriculturalForm: the runs of handleSubmit, in order

liveVars == <<client, effect, handlers, connected, config, turns, isAwaiting,
              markers, sessions, batches, sent, lastConnect>>

fetchVars == <<envKey, API_KEY, cameraTarget, preventAutoFrame, fetches, groundings>>

formVars == <<formData, isSubmitting, response, error, submits>>

vars == <<client, effect, handlers, connected, config, turns, isAwaiting,
          markers, sessions, batches, sent, lastConnect,
          envKey, API_KEY, cameraTarget, preventAutoFrame, fetches, groundings,
          formData, isSubmitting, response, error, submits>>

(* --------------------------- values and text --------------------------- *)

\* the names the model knows; toolRegistry maps the first ones to handlers
RegisteredTools == {"mapsGrounding"}

ToolNames == RegisteredTools \cup {"noSuchTool"}

\* toolRegistry[fc.name] is truthy
toolImplementation(name) == name \in RegisteredTools

\* the reasons a CloseEvent carries
Reasons == {"", "quota exceeded"}

\* the values of the config state: {} and an object with options
Configs == {"emptyObject", "options"}

\* JavaScript's !v for the values config can hold: every object is truthy
Falsy(v) == v \in {"undefined", "null"}

EventNames == {"open", "setupcomplete", "close", "interrupted",
               "generationcomplete", "toolcall"}

\* a text built from a template literal: the literal with <k> where the k-th
\* value goes, the values, and the object printed as JSON in it (<json>)
Text(tmpl, subst, json) == [tmpl |-> tmpl, subst |-> subst, json |-> json]

\* whether the text shows the string s
Contains(text, s) == \E k \in DOMAIN text.subst : text.subst[k] = s

\* the argument objects a function call carries
ArgValues == {"latLng"}

\* JSON.stringify(args, null, 2)
Stringify(args) ==
    CASE args = "noArgs" -> "{}"
      [] args = "latLng" -> "{ lat: 1, lng: 2 }"

\* `Triggering function call: **${fc.name}**\n```json\n${JSON.stringify(fc.args, null, 2)}\n````
triggerMessage(fc) ==
    Text("Triggering function call: **<1>** json <2>",
         <<fc.name, Stringify(fc.args)>>, <<>>)

\* `Unknown tool called: ${fc.name}.`
unknownMessage(fc) == Text("Unknown tool called: <1>.", <<fc.name>>, <<>>)

\* `Error executing tool ${fc.name}.`
errorMessage(fc) == Text("Error executing tool <1>.", <<fc.name>>, <<>>)

\* `Function call response:\n```json\n${JSON.stringify(functionResponses, null, 2)}\n````
responseMessage(functionResponses) ==
    Text("Function call response: json <json>", <<>>, functionResponses)

\* "Session ended. Press 'Play' to start a new session. " + event.reason
closeMessage(reason) ==
    Text("Session ended. Press Play to start a new session. <1>", <<reason>>, <<>>)

\* what a tool implementation resolves to
handlerResult(fc) == Text("<1>", <<"tool result">>, <<>>)

\* {id: fc.id, name: fc.name, response: {result: ...}}
FunctionResponse(fc, result) ==
    [id |-> fc.id, name |-> fc.name, response |-> [result |-> result]]

(* ------------------------ useLogStore, useMapStore ---------------------- *)

Turn(role, text, isFinal) == [role |-> role, text |-> text, isFinal |-> isFinal]

\* useLogStore.addTurn: the turn goes to the end of the transcript
addTurn(ts, turn) == Append(ts, turn)

\* useLogStore.updateLastTurn: the update is merged into the last turn
updateLastTurn(ts, isFinal) ==
    IF ts = <<>> THEN ts
    ELSE [ts EXCEPT ![Len(ts)] = [@ EXCEPT !.isFinal = isFinal]]

\* useLogStore.clearTurns
clearTurns == <<>>

\* useMapStore.clearMarkers
clearMarkers == {}

(* --------------------------- GenAILiveClient --------------------------- *)

\* a connection of client c, as client.connect creates it
NewSession(c) == [client |-> c, st |-> "connecting", setup |-> FALSE, texts |-> 0]

\* client.connect(config): a new connection is being established
clientConnect(ss, c) == Append(ss, NewSession(c))

\* client.disconnect(): the client's connection is torn down; a no-op without one
clientDisconnect(ss, c) ==
    [k \in DOMAIN ss |->
        IF ss[k].client = c /\ ss[k].st # "closed"
        THEN [ss[k] EXCEPT !.st = "closed"] ELSE ss[k]]

\* the connection a send of client c goes to: its open one (the latest), 0 if none
ActiveSession(ss, c) ==
    LET open == {k \in DOMAIN ss : ss[k].client = c /\ ss[k].st = "open"}
    IN  IF open = {} THEN 0 ELSE CHOOSE k \in open : \A j \in open : j <= k

\* client.sendRealtimeText(text): the text goes into the active session, if any
sendRealtimeText(ss, c) ==
    LET k == ActiveSession(ss, c)
    IN  IF k = 0 THEN ss ELSE [ss EXCEPT ![k].texts = @ + 1]

\* whether client.sendToolResponse throws: not with an active session; without
\* one the client may throw or report the failure by an event
sendToolResponseThrows(ss, c) ==
    IF ActiveSession(ss, c) # 0 THEN {FALSE} ELSE BOOLEAN

\* client.on(ev, handler) for the handlers the effect run g creates on client c
Subscriptions(c, g, evs) == {[client |-> c, ev |-> e, effect |-> g] : e \in evs}

\* whether an event ev of client c finds a listener
Subscribed(c, ev) == \E h \in handlers : h.client = c /\ h.ev = ev

\* the sessions a server event can come from
OpenSessions == {k \in DOMAIN sessions : sessions[k].st = "open"}

(* ------------------------------ onToolCall ----------------------------- *)

\* One run of onToolCall: the batch, the closure it runs in (client, effect),
\* the iteration it has reached, its local functionResponses, where it stands
\* (pc) and what it has done so far (trace).
NewBatch(n, c, g, s, calls) ==
    [n |-> n, client |-> c, effect |-> g, session |-> s, calls |-> calls,
     i |-> 0, functionResponses |-> <<>>, pc |-> "loop", trace |-> <<>>]

Log(bt, ev, k) == [bt EXCEPT !.trace = Append(@, <<ev, k>>)]

\* The state a run of onToolCall works on: the stores, the client's calls and
\* its own record.
RunState(bt) == [turns |-> turns, isAwaiting |-> isAwaiting, sent |-> sent, bt |-> bt]

\* useLogStore.getState().setIsAwaitingFunctionResponse(v)
setIsAwaitingFunctionResponse(st, v) ==
    [st EXCEPT !.isAwaiting = v,
               !.bt = Log(@, IF v THEN "awaiting:=true" ELSE "awaiting:=false", 0)]

\* push putting the response at the front of the list (unshift)
push_Front(st, fc, result) ==
    [st EXCEPT !.bt = Log([@ EXCEPT !.functionResponses =
                                <<FunctionResponse(fc, result)>> \o @],
                          "push", st.bt.i)]

\* functionResponses.push({id, name, response: {result}})
push(st, fc, result) ==
    [st EXCEPT !.bt = Log([@ EXCEPT !.functionResponses =
                                Append(@, FunctionResponse(fc, result))],
                          "push", st.bt.i)]

\* unknownTool with the lookup's result called without the test: the call of
\* undefined throws and the catch block handles it
unknownTool_AsFailure(st, fc) ==
    push([st EXCEPT !.bt = Log(@, "errorTurn", st.bt.i),
                    !.turns = addTurn(@, Turn("system", errorMessage(fc), TRUE))],
         fc, errorMessage(fc))

\* the else branch of the lookup: no handler, the result names the tool
unknownTool(st, fc) == push(st, fc, unknownMessage(fc))

\* the await of the tool implementation resolved
handlerReturned(st) ==
    LET fc == st.bt.calls[st.bt.i]
    IN  push([st EXCEPT !.bt = Log(@, "returned", st.bt.i)], fc, handlerResult(fc))

\* handlerThrew without the push of the catch block
handlerThrew_NoPush(st) ==
    LET fc == st.bt.calls[st.bt.i]
    IN  [st EXCEPT !.bt = Log(Log(@, "threw", st.bt.i), "errorTurn", st.bt.i),
                   !.turns = addTurn(@, Turn("system", errorMessage(fc), TRUE))]

\* handlerThrew leaving the loop after the catch block
handlerThrew_Break(st) ==
    LET fc == st.bt.calls[st.bt.i]
        s1 == [st EXCEPT !.bt = Log(Log(@, "threw", st.bt.i), "errorTurn", st.bt.i),
                         !.turns = addTurn(@, Turn("system", errorMessage(fc), TRUE))]
    IN  [push(s1, fc, errorMessage(fc)) EXCEPT !.bt.i = Len(st.bt.calls)]

\* the catch block: the tool implementation threw or rejected
handlerThrew(st) ==
    LET fc == st.bt.calls[st.bt.i]
        s1 == [st EXCEPT !.bt = Log(Log(@, "threw", st.bt.i), "errorTurn", st.bt.i),
                         !.turns = addTurn(@, Turn("system", errorMessage(fc), TRUE))]
    IN  push(s1, fc, errorMessage(fc))

\* for (const fc of toolCall.functionCalls), from the call after bt.i up to the
\* next await of a tool implementation, or to the end of the calls
RECURSIVE forLoop(_)
forLoop(st) ==
    IF st.bt.i >= Len(st.bt.calls) THEN [st EXCEPT !.bt.pc = "post"]
    ELSE LET k  == st.bt.i + 1
             fc == st.bt.calls[k]
             s1 == [st EXCEPT !.turns = addTurn(@, Turn("system", triggerMessage(fc), TRUE)),
                              !.bt = Log([@ EXCEPT !.i = k], "trigger", k)]
         IN  IF toolImplementation(fc.name)
             THEN [s1 EXCEPT !.bt = Log([@ EXCEPT !.pc = "awaiting"], "invoke", k)]
             ELSE forLoop(unknownTool(s1, fc))

\* the reset as the last statement of the try block instead of a finally block
finallyBlock_NotOnThrow(st) ==
    IF st.bt.pc = "failed" THEN st ELSE setIsAwaitingFunctionResponse(st, FALSE)

\* finally { setIsAwaitingFunctionResponse(false) }
finallyBlock(st) == setIsAwaitingFunctionResponse(st, FALSE)

\* afterLoop without the test of functionResponses.length
afterLoop_AlwaysTurn(st, activeSession, throws) ==
    LET s1 == [st EXCEPT !.turns = addTurn(@, Turn("system",
                                 responseMessage(st.bt.functionResponses), TRUE)),
                         !.bt = Log(@, "responseTurn", 0)]
        s2 == [s1 EXCEPT !.sent = Append(@, [batch |-> st.bt.n,
                                             client |-> st.bt.client,
                                             session |-> activeSession,
                                             functionResponses |-> st.bt.functionResponses]),
                         !.bt = Log([@ EXCEPT !.pc = IF throws THEN "failed" ELSE "done"],
                                    "send", 0)]
    IN  setIsAwaitingFunctionResponse(s2, FALSE)

\* afterLoop with client.sendToolResponse inside the test of
\* functionResponses.length: a batch without calls is never answered
afterLoop_SendIfAny(st, activeSession, throws) ==
    IF Len(st.bt.functionResponses) > 0
    THEN LET s1 == [st EXCEPT !.turns = addTurn(@, Turn("system",
                                 responseMessage(st.bt.functionResponses), TRUE)),
                              !.bt = Log(@, "responseTurn", 0)]
             s2 == [s1 EXCEPT !.sent = Append(@, [batch |-> st.bt.n,
                                             client |-> st.bt.client,
                                             session |-> activeSession,
                                             functionResponses |-> st.bt.functionResponses]),
                         !.bt = Log([@ EXCEPT !.pc = IF throws THEN "failed" ELSE "done"],
                                    "send", 0)]
         IN  finallyBlock(s2)
    ELSE finallyBlock([st EXCEPT !.bt.pc = "done"])

\* after the loop: the response turn, client.sendToolResponse, and the finally
\* block; throws says whether sendToolResponse throws
afterLoop(st, activeSession, throws) ==
    LET s1 == IF Len(st.bt.functionResponses) > 0
              THEN [st EXCEPT !.turns = addTurn(@, Turn("system",
                                 responseMessage(st.bt.functionResponses), TRUE)),
                              !.bt = Log(@, "responseTurn", 0)]
              ELSE st
        s2 == [s1 EXCEPT !.sent = Append(@, [batch |-> st.bt.n,
                                             client |-> st.bt.client,
                                             session |-> activeSession,
                                             functionResponses |-> st.bt.functionResponses]),
                         !.bt = Log([@ EXCEPT !.pc = IF throws THEN "failed" ELSE "done"],
                                    "send", 0)]
    IN  finallyBlock(s2)

\* the run from where st stands to its next await or to its end
runToolCall(st, activeSession, throws) ==
    LET r == forLoop(st)
    IN  IF r.bt.pc = "post" THEN afterLoop(r, activeSession, throws) ELSE r

\* the body of onToolCall up to its first await
onToolCall(bt, activeSession, throws) ==
    runToolCall(setIsAwaitingFunctionResponse(RunState(bt), TRUE), activeSession, throws)

\* the function calls received so far
Received == LET Sum[b \in 0..Len(batches)] ==
                    IF b = 0 THEN 0 ELSE Sum[b - 1] + Len(batches[b].calls)
            IN  Sum[Len(batches)]

\* the batches a toolcall event can carry, with the ids of batch n
CallSeqs(n) ==
    UNION {[1..len -> {[id |-> 10 * n + k, name |-> nm, args |-> a] :
                         k \in 1..MaxCalls, nm \in ToolNames, a \in ArgValues}]
           : len \in 0..(MaxCalls - Received)}

FunctionCalls(n) == {cs \in CallSeqs(n) : \A k \in DOMAIN cs : cs[k].id = 10 * n + k}

(* --------------------- the recommendation service ---------------------- *)

\* calls of fetchAgriculturalRecommendations over a run
MaxFetches == 2

\* the values process.env.API_KEY takes; "" stands for an absent variable
EnvValues == {"", "key"}

\* the coordinates the callers pass
Latitudes == {0, 41}

Longitudes == {-74, 0}

\* the HTTP statuses the endpoint answers with
Statuses == {200, 204, 429, 500}

\* response.ok
ok(status) == status >= 200 /\ status <= 299

\* the bodies the endpoint sends
Bodies == {"json", "not json"}

\* the camera target of the map store before anything set it
InitialCamera ==
    [center |-> [lat |-> 0, lng |-> 0, altitude |-> 0],
     range |-> 0, tilt |-> 0, heading |-> 0, roll |-> 0]

\* zoomToLocation with the coordinates exchanged
zoomToLocation_Swapped(latitude, longitude) ==
    [cameraTarget |-> [center |-> [lat |-> longitude, lng |-> latitude, altitude |-> 750],
                       range |-> 2500, tilt |-> 50, heading |-> 0, roll |-> 0],
     preventAutoFrame |-> TRUE]

\* zoomToLocation(latitude, longitude): what it sets in the map store
zoomToLocation(latitude, longitude) ==
    [cameraTarget |-> [center |-> [lat |-> latitude, lng |-> longitude, altitude |-> 750],
                       range |-> 2500, tilt |-> 50, heading |-> 0, roll |-> 0],
     preventAutoFrame |-> TRUE]

\* An optional property of an object: def says whether it is there (not
\* undefined), val is its value (a number here).
undefined == [def |-> FALSE, val |-> 0]

Some(v) == [def |-> TRUE, val |-> v]

\* the same for a string and for a boolean
undefinedString == [def |-> FALSE, val |-> ""]

undefinedBoolean == [def |-> FALSE, val |-> FALSE]

\* JavaScript's truthiness of an optional number, string and boolean: undefined,
\* 0, '' and false are falsy
TruthyNumber(x) == x.def /\ x.val # 0

TruthyString(x) == x.def /\ x.val # ""

TruthyBoolean(x) == x.def /\ x.val

\* null, for a state that holds a text or null
null == Text("null", <<>>, <<>>)

\* AgriculturalParameters with the optional properties left out
RequiredOnly(lat, lng) ==
    [latitude |-> lat, longitude |-> lng,
     soilType |-> "loamy", climate |-> "temperate", season |-> "spring",
     rainfall |-> undefined, temperature |-> undefined,
     irrigationAvailable |-> undefinedBoolean,
     farmSize |-> undefined, previousCrop |-> undefinedString]

\* agriculturalPrompt: the location and the three required lines are always
\* there; per optional parameter the value its line shows, undefined when the
\* template puts '' in the line's place
agriculturalPrompt(params) ==
    [latitude |-> params.latitude, longitude |-> params.longitude,
     soilType |-> params.soilType, climate |-> params.climate,
     season |-> params.season,
     rainfall |-> IF TruthyNumber(params.rainfall) THEN params.rainfall ELSE undefined,
     temperature |-> IF TruthyNumber(params.temperature) THEN params.temperature
                     ELSE undefined,
     irrigationAvailable |->
         IF params.irrigationAvailable.def
         THEN [def |-> TRUE,
               val |-> IF TruthyBoolean(params.irrigationAvailable) THEN "Yes" ELSE "No"]
         ELSE undefinedString,
     farmSize |-> IF TruthyNumber(params.farmSize) THEN params.farmSize ELSE undefined,
     previousCrop |-> IF TruthyString(params.previousCrop) THEN params.previousCrop
                      ELSE undefinedString]

\* requestBody.toolConfig of fetchAgriculturalRecommendations
agriculturalToolConfig(params) ==
    [retrievalConfig |-> [latLng |-> [latitude |-> params.latitude,
                                      longitude |-> params.longitude]]]

\* requestFailed with a fixed message, the body of the response left out
requestFailed_NoBody(status, errorBody) ==
    [message |-> "API request failed with status <1>", status |-> status, body |-> ""]

\* `API request failed with status ${response.status}: ${errorBody}`
requestFailed(status, errorBody) ==
    [message |-> "API request failed with status <1>: <2>",
     status |-> status, body |-> errorBody]

\* an error that carries no response: the missing key, a network failure, a
\* body that does not parse
plainError(message) == [message |-> message, status |-> 0, body |-> ""]

noError == plainError("")

\* One call of fetchAgriculturalRecommendations: its parameters, where it
\* stands (pc), the request it sent, the response it got, the camera targets it
\* set, the error it threw and what it has done so far (trace).
NewFetch(params) ==
    [params |-> params, pc |-> "start", request |-> <<>>, status |-> 0,
     body |-> "", zooms |-> <<>>, error |-> noError, trace |-> <<>>]

Did(f, ev) == [f EXCEPT !.trace = Append(@, ev)]

\* the catch block: console.error and throw error
rethrow(f, err) == Did([f EXCEPT !.pc = "threw", !.error = err], "throw")

(* -------------------------------- Init --------------------------------- *)

\* The state after the first render and its effect: one client, its six
\* listeners registered, nothing connected, config = {}.
Init ==
    /\ client = 1
    /\ effect = 1
    /\ handlers = Subscriptions(1, 1, EventNames)
    /\ connected = FALSE
    /\ config = "emptyObject"
    /\ turns = <<>>
    /\ isAwaiting = FALSE
    /\ markers = {}
    /\ sessions = <<>>
    /\ batches = <<>>
    /\ sent = <<>>
    /\ lastConnect = [called |-> FALSE, config |-> "emptyObject", threw |-> FALSE]
    /\ envKey \in EnvValues
    /\ API_KEY = envKey
    /\ cameraTarget = InitialCamera
    /\ preventAutoFrame = FALSE
    /\ fetches = <<>>
    /\ groundings = <<>>
    /\ formData = RequiredOnly(0, 0)
    /\ isSubmitting = FALSE
    /\ response = null
    /\ error = null
    /\ submits = <<>>

\* The same, the module loaded with the credential in the environment.
InitWithKey == Init /\ envKey = "key"

(* ----------------------- the orchestrator's methods --------------------- *)

\* setConfig(config)
SetConfig(c) ==
    /\ config' = c
    /\ UNCHANGED <<client, effect, handlers, connected, turns, isAwaiting,
                   markers, sessions, batches, sent, lastConnect>>
    /\ UNCHANGED <<fetchVars, formVars>>

\* connect() without its client.disconnect()
Connect_NoDisconnect ==
    /\ Len(sessions) < MaxSessions
    /\ IF Falsy(config)
       THEN /\ lastConnect' = [called |-> TRUE, config |-> config, threw |-> TRUE]
            /\ UNCHANGED <<turns, markers, sessions>>
       ELSE /\ turns' = clearTurns
            /\ markers' = clearMarkers
            /\ sessions' = clientConnect(sessions, client)
            /\ lastConnect' = [called |-> TRUE, config |-> config, threw |-> FALSE]
    /\ UNCHANGED <<client, effect, handlers, connected, config, isAwaiting,
                   batches, sent>>
    /\ UNCHANGED <<fetchVars, formVars>>

\* connect(): throws 'config has not been set' when !config; otherwise clears
\* the transcript and the markers, disconnects the client and starts connecting
Connect ==
    /\ Len(sessions) < MaxSessions
    /\ IF Falsy(config)
       THEN /\ lastConnect' = [called |-> TRUE, config |-> config, threw |-> TRUE]
            /\ UNCHANGED <<turns, markers, sessions>>
       ELSE /\ turns' = clearTurns
            /\ markers' = clearMarkers
            /\ sessions' = clientConnect(clientDisconnect(sessions, client), client)
            /\ lastConnect' = [called |-> TRUE, config |-> config, threw |-> FALSE]
    /\ UNCHANGED <<client, effect, handlers, connected, config, isAwaiting,
                   batches, sent>>
    /\ UNCHANGED <<fetchVars, formVars>>

\* disconnect() without its setConnected(false)
Disconnect_KeepFlag ==
    /\ sessions' = clientDisconnect(sessions, client)
    /\ UNCHANGED <<client, effect, handlers, connected, config, turns, isAwaiting,
                   markers, batches, sent, lastConnect>>
    /\ UNCHANGED <<fetchVars, formVars>>

\* disconnect(): client.disconnect(); setConnected(false)
Disconnect ==
    /\ sessions' = clientDisconnect(sessions, client)
    /\ connected' = FALSE
    /\ UNCHANGED <<client, effect, handlers, config, turns, isAwaiting,
                   markers, batches, sent, lastConnect>>
    /\ UNCHANGED <<fetchVars, formVars>>

\* the cleanup without its client.off('toolcall', onToolCall)
CleanupEvents_NoToolCall == {"open", "setupcomplete", "close", "interrupted",
                             "generationcomplete"}

\* the names the effect's cleanup passes to client.off
CleanupEvents == {"open", "setupcomplete", "close", "interrupted", "toolcall",
                  "generationcomplete"}

\* A dependency of the effect changed: its cleanup runs, then the effect again.
\* newClient: apiKey or model changed, so useMemo made a new GenAILiveClient.
EffectRerun(newClient) ==
    /\ effect < MaxEffects
    /\ effect' = effect + 1
    /\ client' = IF newClient THEN client + 1 ELSE client
    /\ handlers' = (handlers \ Subscriptions(client, effect, CleanupEvents))
                   \cup Subscriptions(client', effect', EventNames)
    /\ UNCHANGED <<connected, config, turns, isAwaiting, markers, sessions,
                   batches, sent, lastConnect>>
    /\ UNCHANGED <<fetchVars, formVars>>

(* ------------------------- the events of a client ---------------------- *)

\* onOpen
onOpen == connected' = TRUE

\* onClose with a fixed text, event.reason left out
onClose_NoReason(reason) ==
    /\ connected' = FALSE
    /\ turns' = addTurn(turns, Turn("agent",
                    Text("Session ended. Press Play to start a new session. ", <<>>, <<>>),
                    TRUE))

\* onClose
onClose(reason) ==
    /\ connected' = FALSE
    /\ turns' = addTurn(turns, Turn("agent", closeMessage(reason), TRUE))

\* onInterrupted making every turn that is not final final
onInterrupted_EveryTurn ==
    turns' = [j \in DOMAIN turns |-> [turns[j] EXCEPT !.isFinal = TRUE]]

\* onInterrupted closing the utterance with a new final turn
onInterrupted_NewTurn ==
    LET lastTurn == IF turns = <<>> THEN [isFinal |-> TRUE] ELSE turns[Len(turns)]
    IN  IF turns # <<>> /\ ~lastTurn.isFinal
        THEN turns' = addTurn(turns, [lastTurn EXCEPT !.isFinal = TRUE])
        ELSE UNCHANGED turns

\* onInterrupted
onInterrupted ==
    LET lastTurn == IF turns = <<>> THEN [isFinal |-> TRUE] ELSE turns[Len(turns)]
    IN  IF turns # <<>> /\ ~lastTurn.isFinal
        THEN turns' = updateLastTurn(turns, TRUE)
        ELSE UNCHANGED turns

\* the connection s is established: the client emits 'open'
SessionOpen(s) ==
    /\ s \in DOMAIN sessions
    /\ sessions[s].st = "connecting"
    /\ sessions' = [sessions EXCEPT ![s].st = "open"]
    /\ IF Subscribed(sessions[s].client, "open") THEN onOpen ELSE UNCHANGED connected
    /\ UNCHANGED <<client, effect, handlers, config, turns, isAwaiting, markers,
                   batches, sent, lastConnect>>
    /\ UNCHANGED <<fetchVars, formVars>>

\* the server finished the setup of session s: the client emits 'setupcomplete'
\* and onSetupComplete sends the greeting
SetupComplete(s) ==
    /\ s \in OpenSessions
    /\ ~sessions[s].setup
    /\ LET ss == [sessions EXCEPT ![s].setup = TRUE]
       IN  sessions' = IF Subscribed(ss[s].client, "setupcomplete")
                       THEN sendRealtimeText(ss, ss[s].client) ELSE ss
    /\ UNCHANGED <<client, effect, handlers, connected, config, turns, isAwaiting,
                   markers, batches, sent, lastConnect>>
    /\ UNCHANGED <<fetchVars, formVars>>

\* the server or the transport ends session s: the client emits 'close'
SessionClose(s, reason) ==
    /\ s \in DOMAIN sessions
    /\ sessions[s].st # "closed"
    /\ sessions' = [sessions EXCEPT ![s].st = "closed"]
    /\ IF Subscribed(sessions[s].client, "close")
       THEN onClose(reason) ELSE UNCHANGED <<connected, turns>>
    /\ UNCHANGED <<client, effect, handlers, config, isAwaiting, markers,
                   batches, sent, lastConnect>>
    /\ UNCHANGED <<fetchVars, formVars>>

\* the model's output was cut off: the client emits 'interrupted'
Interrupted(s) ==
    /\ s \in OpenSessions
    /\ IF Subscribed(sessions[s].client, "interrupted")
       THEN onInterrupted ELSE UNCHANGED turns
    /\ UNCHANGED <<client, effect, handlers, connected, config, isAwaiting,
                   markers, sessions, batches, sent, lastConnect>>
    /\ UNCHANGED <<fetchVars, formVars>>

\* the model finished a turn: the client emits 'generationcomplete'; the
\* handler is empty
GenerationComplete(s) ==
    /\ s \in OpenSessions
    /\ UNCHANGED vars

\* what a run of onToolCall leaves behind
Commit(b, st) ==
    /\ turns' = st.turns
    /\ isAwaiting' = st.isAwaiting
    /\ sent' = st.sent
    /\ batches' = IF b > Len(batches) THEN Append(batches, st.bt)
                  ELSE [batches EXCEPT ![b] = st.bt]

\* the server asks for function calls in session s: the client emits 'toolcall'
ToolCall(s, calls) ==
    /\ s \in OpenSessions
    /\ Len(batches) < MaxBatches
    /\ LET c == sessions[s].client
           n == Len(batches) + 1
       IN  IF Subscribed(c, "toolcall")
           THEN \E throws \in sendToolResponseThrows(sessions, c) :
                   Commit(n, onToolCall(NewBatch(n, c, effect, s, calls),
                                        ActiveSession(sessions, c), throws))
           ELSE UNCHANGED <<turns, isAwaiting, sent, batches>>
    /\ UNCHANGED <<client, effect, handlers, connected, config, markers,
                   sessions, lastConnect>>
    /\ UNCHANGED <<fetchVars, formVars>>

\* the tool implementation awaited by batch b settles; onToolCall resumes
HandlerSettles(b, returned) ==
    /\ b \in DOMAIN batches
    /\ batches[b].pc = "awaiting"
    /\ LET st == RunState(batches[b])
           c  == batches[b].client
       IN  \E throws \in sendToolResponseThrows(sessions, c) :
              Commit(b, runToolCall(IF returned THEN handlerReturned(st)
                                    ELSE handlerThrew(st),
                                    ActiveSession(sessions, c), throws))
    /\ UNCHANGED <<client, effect, handlers, connected, config, markers,
                   sessions, lastConnect>>
    /\ UNCHANGED <<fetchVars, formVars>>

(* ------------------------- the other components ------------------------ *)

\* the turns of the transcript that come from streamed speech
Streamed == {k \in DOMAIN turns : turns[k].role # "system" /\ turns[k].text.tmpl = "<1>"}

\* the console streams the user's or the agent's speech into the transcript
StreamTurn(role) ==
    /\ Cardinality(Streamed) < MaxStream
    /\ turns' = addTurn(turns, Turn(role, Text("<1>", <<"speech">>, <<>>), FALSE))
    /\ UNCHANGED <<client, effect, handlers, connected, config, isAwaiting,
                   markers, sessions, batches, sent, lastConnect>>
    /\ UNCHANGED <<fetchVars, formVars>>

\* a tool puts a marker on the map
AddMarker ==
    /\ Cardinality(markers) < MaxMarkers
    /\ markers' = markers \cup {Cardinality(markers) + 1}
    /\ UNCHANGED <<client, effect, handlers, connected, config, turns,
                   isAwaiting, sessions, batches, sent, lastConnect>>
    /\ UNCHANGED <<fetchVars, formVars>>

(* ---------------- fetchAgriculturalRecommendations ---------------------- *)

\* process.env.API_KEY is set or removed while the page runs
SetEnv(v) ==
    /\ v # envKey
    /\ envKey' = v
    /\ UNCHANGED <<API_KEY, cameraTarget, preventAutoFrame, fetches, groundings>>
    /\ UNCHANGED <<liveVars, formVars>>

\* fetchAgriculturalRecommendations(params) up to its await of fetch: the
\* test of API_KEY, the prompt, the request body, the POST
fetchCall(params) ==
    IF API_KEY = ""
    THEN Did([NewFetch(params) EXCEPT
                 !.pc = "threw",
                 !.error = plainError("Missing required environment variable: API_KEY")],
             "throw")
    ELSE Did([NewFetch(params) EXCEPT
                 !.pc = "fetch",
                 !.request = <<[key |-> API_KEY,
                                prompt |-> agriculturalPrompt(params),
                                toolConfig |-> agriculturalToolConfig(params)]>>],
             "request")

\* a call of fetchAgriculturalRecommendations(params)
FetchAgriculturalRecommendations(params) ==
    /\ Len(fetches) < MaxFetches
    /\ fetches' = Append(fetches, fetchCall(params))
    /\ UNCHANGED <<envKey, API_KEY, cameraTarget, preventAutoFrame, groundings>>
    /\ UNCHANGED <<liveVars, formVars>>

\* the await of fetch resolves with a response: !response.ok leads to the
\* await of response.text(), otherwise to the await of response.json()
FetchResolves(c, status, body) ==
    /\ c \in DOMAIN fetches
    /\ fetches[c].pc = "fetch"
    /\ fetches' = [fetches EXCEPT ![c] =
          Did([@ EXCEPT !.status = status, !.body = body,
                        !.pc = IF ~ok(status) THEN "text" ELSE "json"],
              "response")]
    /\ UNCHANGED <<envKey, API_KEY, cameraTarget, preventAutoFrame, groundings>>
    /\ UNCHANGED <<liveVars, formVars>>

\* the await of fetch rejects: the request failed at network level
FetchRejects(c) ==
    /\ c \in DOMAIN fetches
    /\ fetches[c].pc = "fetch"
    /\ fetches' = [fetches EXCEPT ![c] = rethrow(@, plainError("Failed to fetch"))]
    /\ UNCHANGED <<envKey, API_KEY, cameraTarget, preventAutoFrame, groundings>>
    /\ UNCHANGED <<liveVars, formVars>>

\* the await of response.text() resolves: the error with status and body is
\* thrown, caught and thrown again
TextResolves(c) ==
    /\ c \in DOMAIN fetches
    /\ fetches[c].pc = "text"
    /\ fetches' = [fetches EXCEPT ![c] =
          rethrow(Did(@, "errorBody"),
                  requestFailed(fetches[c].status, fetches[c].body))]
    /\ UNCHANGED <<envKey, API_KEY, cameraTarget, preventAutoFrame, groundings>>
    /\ UNCHANGED <<liveVars, formVars>>

\* the await of response.text() rejects: the connection broke while the body
\* of the error response was read
TextRejects(c) ==
    /\ c \in DOMAIN fetches
    /\ fetches[c].pc = "text"
    /\ fetches' = [fetches EXCEPT ![c] = rethrow(@, plainError("Failed to fetch"))]
    /\ UNCHANGED <<envKey, API_KEY, cameraTarget, preventAutoFrame, groundings>>
    /\ UNCHANGED <<liveVars, formVars>>

\* the await of response.json() settles: a body that parses leads to
\* zoomToLocation and the return of the data, one that does not to the catch
\* block
JsonSettles(c) ==
    /\ c \in DOMAIN fetches
    /\ fetches[c].pc = "json"
    /\ IF fetches[c].body = "json"
       THEN LET z == zoomToLocation(fetches[c].params.latitude,
                                    fetches[c].params.longitude)
            IN  /\ cameraTarget' = z.cameraTarget
                /\ preventAutoFrame' = z.preventAutoFrame
                /\ fetches' = [fetches EXCEPT ![c] =
                      Did(Did(Did([@ EXCEPT !.pc = "returned",
                                            !.zooms = Append(@, z.cameraTarget)],
                                  "setCameraTarget"), "setPreventAutoFrame"), "return")]
       ELSE /\ fetches' = [fetches EXCEPT ![c] =
                              rethrow(@, plainError("Unexpected token in JSON"))]
            /\ UNCHANGED <<cameraTarget, preventAutoFrame>>
    /\ UNCHANGED <<envKey, API_KEY, groundings>>
    /\ UNCHANGED <<liveVars, formVars>>

\* another writer of the map store: the map's own framing clears the flag and
\* moves the camera
AutoFrame ==
    /\ preventAutoFrame
    /\ preventAutoFrame' = FALSE
    /\ cameraTarget' = InitialCamera
    /\ UNCHANGED <<envKey, API_KEY, fetches, groundings>>
    /\ UNCHANGED <<liveVars, formVars>>

NextFetch ==
    \/ \E v \in EnvValues : SetEnv(v)
    \/ \E lat \in Latitudes, lng \in Longitudes :
          FetchAgriculturalRecommendations(RequiredOnly(lat, lng))
    \/ \E c \in 1..MaxFetches, status \in Statuses, body \in Bodies :
          FetchResolves(c, status, body)
    \/ \E c \in 1..MaxFetches : FetchRejects(c)
    \/ \E c \in 1..MaxFetches : TextResolves(c)
    \/ \E c \in 1..MaxFetches : TextRejects(c)
    \/ \E c \in 1..MaxFetches : JsonSettles(c)
    \/ AutoFrame

(* --------------------------- AgriculturalForm --------------------------- *)

\* runs of handleSubmit over a run
MaxSubmits == 1

\* what the user types into the number inputs, per input
InputTexts(field) ==
    CASE field = "latitude"    -> {"", "41", "91"}
      [] field = "longitude"   -> {"", "-74", "181"}
      [] field = "rainfall"    -> {"0", "800"}
      [] field = "temperature" -> {"0"}
      [] field = "farmSize"    -> {"0"}

\* parseFloat(e.target.value): a number, or NaN for a text that starts with
\* no number
parseFloat(text) ==
    CASE text = "0"   -> [nan |-> FALSE, val |-> 0]
      [] text = "41"  -> [nan |-> FALSE, val |-> 41]
      [] text = "91"  -> [nan |-> FALSE, val |-> 91]
      [] text = "-74" -> [nan |-> FALSE, val |-> -74]
      [] text = "181" -> [nan |-> FALSE, val |-> 181]
      [] text = "800" -> [nan |-> FALSE, val |-> 800]
      [] OTHER        -> [nan |-> TRUE, val |-> 0]

\* parseFloat(...) || 0: NaN and 0 are falsy
orZero(x) == IF x.nan \/ x.val = 0 THEN 0 ELSE x.val

\* parseFloat(...) || undefined: NaN and 0 are falsy
orUndefined(x) == IF x.nan \/ x.val = 0 THEN undefined ELSE Some(x.val)

\* handleInputChange(field, value): setFormData(prev => ({...prev, [field]: value}))
handleInputChange(field, value) == formData' = [formData EXCEPT ![field] = value]

\* onChange of the latitude and the longitude input
ChangeCoordinate(field, text) ==
    /\ handleInputChange(field, orZero(parseFloat(text)))
    /\ UNCHANGED <<isSubmitting, response, error, submits>>
    /\ UNCHANGED <<liveVars, fetchVars>>

\* onChange of the rainfall, the temperature and the farm size input
ChangeOptionalNumber(field, text) ==
    /\ handleInputChange(field, orUndefined(parseFloat(text)))
    /\ UNCHANGED <<isSubmitting, response, error, submits>>
    /\ UNCHANGED <<liveVars, fetchVars>>

\* onChange of the irrigation checkbox: e.target.checked
ChangeIrrigation(checked) ==
    /\ handleInputChange("irrigationAvailable", [def |-> TRUE, val |-> checked])
    /\ UNCHANGED <<isSubmitting, response, error, submits>>
    /\ UNCHANGED <<liveVars, fetchVars>>

\* onChange of the previous crop input: e.target.value || undefined
ChangePreviousCrop(text) ==
    /\ handleInputChange("previousCrop",
                         IF text = "" THEN undefinedString
                         ELSE [def |-> TRUE, val |-> text])
    /\ UNCHANGED <<isSubmitting, response, error, submits>>
    /\ UNCHANGED <<liveVars, fetchVars>>

\* the messages the form shows
invalidCoordinates ==
    Text("Please enter valid latitude and longitude coordinates", <<>>, <<>>)

invalidLatitude == Text("Latitude must be between -90 and 90 degrees", <<>>, <<>>)

invalidLongitude == Text("Longitude must be between -180 and 180 degrees", <<>>, <<>>)

submitFailed == Text("Error getting recommendations. Please try again.", <<>>, <<>>)

noRecommendations == Text("No recommendations available", <<>>, <<>>)

\* validate without the test of the longitude's range
validate_NoLongitudeRange(data) ==
    IF data.latitude = 0 \/ data.longitude = 0 THEN invalidCoordinates
    ELSE IF data.latitude < -90 \/ data.latitude > 90 THEN invalidLatitude
    ELSE null

\* the validation at the head of handleSubmit: the message it sets, null if
\* the coordinates pass
validate(data) ==
    IF data.latitude = 0 \/ data.longitude = 0 THEN invalidCoordinates
    ELSE IF data.latitude < -90 \/ data.latitude > 90 THEN invalidLatitude
    ELSE IF data.longitude < -180 \/ data.longitude > 180 THEN invalidLongitude
    ELSE null

\* One run of handleSubmit: the parameters it submitted, the call of
\* fetchAgriculturalRecommendations it awaits (0 if none), where it stands
\* (pc), what it has done so far (trace) and the arguments it called the
\* onSubmit prop with.
NewSubmit(data, c) ==
    [formData |-> data, fetch |-> c, pc |-> "start", trace |-> <<>>,
     onSubmit |-> <<>>]

\* the onSubmit prop of the form: not given, or a callback that returns or
\* throws
OnSubmitProps == {"none", "returns", "throws"}

\* handleSubmit up to its return or to its await of
\* fetchAgriculturalRecommendations(formData); the submit button is disabled
\* while isSubmitting
HandleSubmit ==
    /\ ~isSubmitting
    /\ Len(submits) < MaxSubmits
    /\ Len(fetches) < MaxFetches
    /\ IF validate(formData) # null
       THEN /\ error' = validate(formData)
            /\ submits' = Append(submits,
                  Did(Did([NewSubmit(formData, 0) EXCEPT !.pc = "invalid"],
                          "setError"), "return"))
            /\ UNCHANGED <<isSubmitting, response, fetches>>
       ELSE /\ isSubmitting' = TRUE
            /\ error' = null
            /\ response' = null
            /\ fetches' = Append(fetches, fetchCall(formData))
            /\ submits' = Append(submits,
                  Did(Did([NewSubmit(formData, Len(fetches) + 1) EXCEPT !.pc = "awaiting"],
                          "setIsSubmitting(true)"), "fetch"))
    /\ UNCHANGED <<formData, envKey, API_KEY, cameraTarget, preventAutoFrame, groundings>>
    /\ UNCHANGED liveVars

\* the await of handleSubmit settles: the text of the result (or the fixed
\* text when it has none) is stored and onSubmit, if given, is called; the
\* catch block sets the error when the call or onSubmit threw; the finally
\* block resets isSubmitting
SubmitSettles(n, hasText, onSubmit) ==
    /\ n \in DOMAIN submits
    /\ submits[n].pc = "awaiting"
    /\ fetches[submits[n].fetch].pc \in {"returned", "threw"}
    /\ IF fetches[submits[n].fetch].pc = "returned"
       THEN LET stored == Did(submits[n], "setResponse")
                called == Did([stored EXCEPT !.onSubmit =
                                  Append(@, submits[n].formData)], "onSubmit")
            IN  /\ response' = IF hasText THEN Text("<1>", <<"recommendations">>, <<>>)
                                ELSE noRecommendations
                /\ CASE onSubmit = "none" ->
                          /\ submits' = [submits EXCEPT ![n] =
                                Did([stored EXCEPT !.pc = "succeeded"],
                                    "setIsSubmitting(false)")]
                          /\ UNCHANGED error
                     [] onSubmit = "returns" ->
                          /\ submits' = [submits EXCEPT ![n] =
                                Did([called EXCEPT !.pc = "succeeded"],
                                    "setIsSubmitting(false)")]
                          /\ UNCHANGED error
                     [] onSubmit = "throws" ->
                          /\ submits' = [submits EXCEPT ![n] =
                                Did(Did([called EXCEPT !.pc = "failed"], "setError"),
                                    "setIsSubmitting(false)")]
                          /\ error' = submitFailed
       ELSE /\ error' = submitFailed
            /\ submits' = [submits EXCEPT ![n] =
                  Did(Did([@ EXCEPT !.pc = "failed"], "setError"),
                      "setIsSubmitting(false)")]
            /\ UNCHANGED response
    /\ isSubmitting' = FALSE
    /\ UNCHANGED formData
    /\ UNCHANGED <<liveVars, fetchVars>>

\* another caller of the exported function passes parameters with zeros
ZeroParameters ==
    {[RequiredOnly(41, -74) EXCEPT !.rainfall = Some(0), !.temperature = Some(25),
                                   !.farmSize = Some(0)]}

\* The form: its inputs, handleSubmit and the call it awaits, which the
\* endpoint answers with a 200 or a 500, after at most one direct call of
\* fetchAgriculturalRecommendations.
NextForm ==
    \/ \E field \in {"latitude", "longitude"} : \E text \in InputTexts(field) :
          ChangeCoordinate(field, text)
    \/ \E field \in {"rainfall", "temperature", "farmSize"} :
          \E text \in InputTexts(field) : ChangeOptionalNumber(field, text)
    \/ HandleSubmit
    \/ \E n \in 1..MaxSubmits, hasText \in BOOLEAN, onSubmit \in OnSubmitProps :
          SubmitSettles(n, hasText, onSubmit)
    \/ \E params \in ZeroParameters :
          fetches = <<>> /\ FetchAgriculturalRecommendations(params)
    \/ \E c \in 1..MaxFetches, status \in {200, 500} : FetchResolves(c, status, "json")
    \/ \E c \in 1..MaxFetches : TextResolves(c)
    \/ \E c \in 1..MaxFetches : JsonSettles(c)

SpecForm == InitWithKey /\ [][NextForm]_vars

(* ------------- fetchMapsGroundedResponseSDK and ...REST ----------------- *)

\* calls of the two maps-grounded functions over a run
MaxGroundings == 1

\* the lat and lng the callers pass: left out, 0, or a coordinate
OptionalCoordinates == {undefined, Some(0), Some(41)}

\* toolConfig: {retrievalConfig: {latLng: {latitude: lat, longitude: lng}}}
retrievalToolConfig(lat, lng) ==
    [retrievalConfig |-> [latLng |-> [latitude |-> lat, longitude |-> lng]]]

\* the request with the condition written as lat && lng
requestWithToolConfig_Truthy(key, lat, lng) ==
    [key |-> key,
     toolConfig |-> IF TruthyNumber(lat) /\ TruthyNumber(lng)
                    THEN <<retrievalToolConfig(lat.val, lng.val)>> ELSE <<>>]

\* the request of both functions: toolConfig is set only
\* if (lat !== undefined && lng !== undefined); <<>> stands for no toolConfig
requestWithToolConfig(key, lat, lng) ==
    [key |-> key,
     toolConfig |-> IF lat.def /\ lng.def
                    THEN <<retrievalToolConfig(lat.val, lng.val)>> ELSE <<>>]

\* One call of a maps-grounded function: which one (fn), its arguments, where
\* it stands (pc), the request it sent, the response it got, the error it threw
\* and what it has done so far (trace).
NewGrounding(fn, args) ==
    [fn |-> fn, args |-> args, pc |-> "start", request |-> <<>>, status |-> 0,
     body |-> "", error |-> noError, trace |-> <<>>]

\* groundedCall reading process.env.API_KEY when it is called
groundedCall_EnvAtCall(fn, args, await) ==
    IF envKey = ""
    THEN Did([NewGrounding(fn, args) EXCEPT
                 !.pc = "threw",
                 !.error = plainError("Missing required environment variable: API_KEY")],
             "throw")
    ELSE Did([NewGrounding(fn, args) EXCEPT
                 !.pc = await,
                 !.request = <<requestWithToolConfig(envKey, args.lat, args.lng)>>],
             "request")

\* the entry of both functions: the test of API_KEY, the request, and the
\* await the request is handed to
groundedCall(fn, args, await) ==
    IF API_KEY = ""
    THEN Did([NewGrounding(fn, args) EXCEPT
                 !.pc = "threw",
                 !.error = plainError("Missing required environment variable: API_KEY")],
             "throw")
    ELSE Did([NewGrounding(fn, args) EXCEPT
                 !.pc = await,
                 !.request = <<requestWithToolConfig(API_KEY, args.lat, args.lng)>>],
             "request")

\* fetchMapsGroundedResponseSDK({prompt, lat, lng}) up to its await of
\* ai.models.generateContent
FetchMapsGroundedResponseSDK(args) ==
    /\ Len(groundings) < MaxGroundings
    /\ groundings' = Append(groundings, groundedCall("SDK", args, "generateContent"))
    /\ UNCHANGED <<envKey, API_KEY, cameraTarget, preventAutoFrame, fetches>>
    /\ UNCHANGED <<liveVars, formVars>>

\* the await of generateContent settles: the response is returned, or the
\* catch block logs the error and throws it again
GenerateContentSettles(g, resolved) ==
    /\ g \in DOMAIN groundings
    /\ groundings[g].pc = "generateContent"
    /\ groundings' = [groundings EXCEPT ![g] =
          IF resolved THEN Did([@ EXCEPT !.pc = "returned"], "return")
          ELSE rethrow(@, plainError("generateContent failed"))]
    /\ UNCHANGED <<envKey, API_KEY, cameraTarget, preventAutoFrame, fetches>>
    /\ UNCHANGED <<liveVars, formVars>>

\* fetchMapsGroundedResponseREST({prompt, lat, lng}) up to its await of fetch
FetchMapsGroundedResponseREST(args) ==
    /\ Len(groundings) < MaxGroundings
    /\ groundings' = Append(groundings, groundedCall("REST", args, "fetch"))
    /\ UNCHANGED <<envKey, API_KEY, cameraTarget, preventAutoFrame, fetches>>
    /\ UNCHANGED <<liveVars, formVars>>

\* the await of fetch settles: with a response (status 0 stands for none, the
\* request failed at network level), !response.ok leading to the await of
\* response.text(), otherwise to the await of response.json()
GroundedFetchSettles(g, status, body) ==
    /\ g \in DOMAIN groundings
    /\ groundings[g].pc = "fetch"
    /\ groundings' = [groundings EXCEPT ![g] =
          IF status = 0 THEN rethrow(@, plainError("Failed to fetch"))
          ELSE Did([@ EXCEPT !.status = status, !.body = body,
                             !.pc = IF ~ok(status) THEN "text" ELSE "json"],
                   "response")]
    /\ UNCHANGED <<envKey, API_KEY, cameraTarget, preventAutoFrame, fetches>>
    /\ UNCHANGED <<liveVars, formVars>>

\* the await of response.text() or of response.json() settles: the error with
\* status and body is thrown, or the data is returned, or the rejection of the
\* await is thrown again; no camera update in any case
GroundedBodySettles(g, resolved) ==
    /\ g \in DOMAIN groundings
    /\ groundings[g].pc \in {"text", "json"}
    /\ groundings' = [groundings EXCEPT ![g] =
          IF groundings[g].pc = "text"
          THEN IF resolved
               THEN rethrow(Did(@, "errorBody"),
                            requestFailed(groundings[g].status, groundings[g].body))
               ELSE rethrow(@, plainError("Failed to fetch"))
          ELSE IF resolved /\ groundings[g].body = "json"
               THEN Did([@ EXCEPT !.pc = "returned"], "return")
               ELSE rethrow(@, plainError("Unexpected token in JSON"))]
    /\ UNCHANGED <<envKey, API_KEY, cameraTarget, preventAutoFrame, fetches>>
    /\ UNCHANGED <<liveVars, formVars>>

NextGrounded ==
    \/ \E v \in EnvValues : SetEnv(v)
    \/ \E lat \in OptionalCoordinates, lng \in OptionalCoordinates :
          FetchMapsGroundedResponseSDK([lat |-> lat, lng |-> lng])
    \/ \E g \in 1..MaxGroundings, resolved \in BOOLEAN :
          GenerateContentSettles(g, resolved)
    \/ \E lat \in OptionalCoordinates, lng \in OptionalCoordinates :
          FetchMapsGroundedResponseREST([lat |-> lat, lng |-> lng])
    \/ \E g \in 1..MaxGroundings, status \in Statuses \cup {0}, body \in Bodies :
          GroundedFetchSettles(g, status, body)
    \/ \E g \in 1..MaxGroundings, resolved \in BOOLEAN : GroundedBodySettles(g, resolved)

\* The two maps-grounded functions alone.
SpecGrounded == Init /\ [][NextGrounded]_vars

\* The entry of the three functions, up to the request each sends, with the
\* environment changing under them.
NextKey ==
    \/ \E v \in EnvValues : SetEnv(v)
    \/ \E lat \in Latitudes, lng \in Longitudes :
          FetchAgriculturalRecommendations(RequiredOnly(lat, lng))
    \/ \E lat \in OptionalCoordinates, lng \in OptionalCoordinates :
          FetchMapsGroundedResponseSDK([lat |-> lat, lng |-> lng])
    \/ \E lat \in OptionalCoordinates, lng \in OptionalCoordinates :
          FetchMapsGroundedResponseREST([lat |-> lat, lng |-> lng])

SpecKey == Init /\ [][NextKey]_vars

(* ------------------------------- Next ---------------------------------- *)

Next ==
    \/ \E c \in Configs : SetConfig(c)
    \/ Connect
    \/ Disconnect
    \/ \E newClient \in BOOLEAN : EffectRerun(newClient)
    \/ \E s \in 1..MaxSessions : SessionOpen(s)
    \/ \E s \in 1..MaxSessions : SetupComplete(s)
    \/ \E s \in 1..MaxSessions, r \in Reasons : SessionClose(s, r)
    \/ \E s \in 1..MaxSessions : Interrupted(s)
    \/ \E s \in 1..MaxSessions : GenerationComplete(s)
    \/ \E s \in 1..MaxSessions : \E calls \in FunctionCalls(Len(batches) + 1) :
          ToolCall(s, calls)
    \/ \E b \in 1..MaxBatches, returned \in BOOLEAN : HandlerSettles(b, returned)
    \/ \E role \in {"user", "agent"} : StreamTurn(role)
    \/ AddMarker
    \/ NextFetch
    \/ NextGrounded
    \/ NextForm
    \/ \E checked \in BOOLEAN : ChangeIrrigation(checked)
    \/ \E text \in {"", "wheat"} : ChangePreviousCrop(text)

Spec == Init /\ [][Next]_vars

\* The recommendation service alone.
SpecFetch == Init /\ [][NextFetch]_vars

\* The tool-call protocol and the transcript, over one session of one client
\* and one run of the effect, with the agent's speech streamed in and one
\* reason of closing; the recommendation service is not called.
NextTool ==
    \/ sessions = <<>> /\ Connect
    \/ \E s \in 1..MaxSessions : SessionOpen(s)
    \/ \E s \in 1..MaxSessions : SessionClose(s, "quota exceeded")
    \/ \E s \in 1..MaxSessions : Interrupted(s)
    \/ \E s \in 1..MaxSessions : \E calls \in FunctionCalls(Len(batches) + 1) :
          ToolCall(s, calls)
    \/ \E b \in 1..MaxBatches, returned \in BOOLEAN : HandlerSettles(b, returned)
    \/ StreamTurn("agent")

SpecTool == InitWithKey /\ [][NextTool]_vars

\* The life of the sessions: connect and disconnect, the clients and the runs
\* of the effect, the session events; no tool call, and the recommendation
\* service is not called.
NextSession ==
    \/ \E c \in Configs : SetConfig(c)
    \/ Connect
    \/ Disconnect
    \/ \E newClient \in BOOLEAN : EffectRerun(newClient)
    \/ \E s \in 1..MaxSessions : SessionOpen(s)
    \/ \E s \in 1..MaxSessions : SetupComplete(s)
    \/ \E s \in 1..MaxSessions, r \in Reasons : SessionClose(s, r)
    \/ \E s \in 1..MaxSessions : Interrupted(s)
    \/ \E s \in 1..MaxSessions : GenerationComplete(s)
    \/ \E role \in {"user", "agent"} : StreamTurn(role)
    \/ AddMarker

SpecSession == InitWithKey /\ [][NextSession]_vars

\* The teardown of the subscription: one session of the first client, the
\* effect running again with the same or with a new client, and the events of
\* the session, tool calls among them, arriving before and after it; the
\* handlers return and the agent speaks before the first tool call.
NextTeardown ==
    \/ sessions = <<>> /\ Connect
    \/ \E newClient \in BOOLEAN : EffectRerun(newClient)
    \/ \E s \in 1..MaxSessions : SessionOpen(s)
    \/ \E s \in 1..MaxSessions : SessionClose(s, "quota exceeded")
    \/ \E s \in 1..MaxSessions : Interrupted(s)
    \/ \E s \in 1..MaxSessions : \E calls \in FunctionCalls(Len(batches) + 1) :
          ToolCall(s, calls)
    \/ \E b \in 1..MaxBatches : HandlerSettles(b, TRUE)
    \/ batches = <<>> /\ StreamTurn("agent")

SpecTeardown == InitWithKey /\ [][NextTeardown]_vars

\* the tool implementation awaited by batch b returns or throws
Settles(b) == \E returned \in BOOLEAN : HandlerSettles(b, returned)

\* The tool-call protocol over one session, every invocation of a tool
\* implementation settling in the end: a promise that is awaited and settles
\* resumes onToolCall, which is what the fairness condition says.
NextSettling ==
    \/ sessions = <<>> /\ Connect
    \/ \E s \in 1..MaxSessions : SessionOpen(s)
    \/ \E s \in 1..MaxSessions : SessionClose(s, "quota exceeded")
    \/ \E s \in 1..MaxSessions : \E calls \in FunctionCalls(Len(batches) + 1) :
          ToolCall(s, calls)
    \/ \E b \in 1..MaxBatches : Settles(b)

SpecSettling ==
    /\ InitWithKey
    /\ [][NextSettling]_vars
    /\ \A b \in 1..MaxBatches : WF_vars(Settles(b))

\* The tool-call protocol across sessions of one client: the user connects,
\* disconnects and connects again while tool implementations are awaited.
NextReconnect ==
    \/ Connect
    \/ Disconnect
    \/ \E s \in 1..MaxSessions : SessionOpen(s)
    \/ \E s \in 1..MaxSessions : \E calls \in FunctionCalls(Len(batches) + 1) :
          ToolCall(s, calls)
    \/ \E b \in 1..MaxBatches : Settles(b)

SpecReconnect == InitWithKey /\ [][NextReconnect]_vars

(* ------------------------- the claims: helpers ------------------------- *)

Finished(bt) == bt.pc \in {"done", "failed"}

InTrace(bt, ev, k) == \E j \in DOMAIN bt.trace : bt.trace[j] = <<ev, k>>

\* the positions of the responses in fr that carry the id
ResponsesFor(fr, id) == {m \in DOMAIN fr : fr[m].id = id}

\* the calls of client.sendToolResponse made for batch b
SendsOf(b) == {k \in DOMAIN sent : sent[k].batch = b}

\* every call of the batch has exactly one response in fr, with its name
AllAnswered(bt, fr) ==
    /\ Len(fr) = Len(bt.calls)
    /\ \A j \in DOMAIN bt.calls :
          /\ Cardinality(ResponsesFor(fr, bt.calls[j].id)) = 1
          /\ \A m \in ResponsesFor(fr, bt.calls[j].id) : fr[m].name = bt.calls[j].name

(* -------------------------------- C1 ----------------------------------- *)

\* C1: a batch whose handler has finished had client.sendToolResponse called
\* exactly once, with as many functionResponses as it has calls, every call
\* id in exactly one of them under the call's name, whatever its handlers did;
\* a batch still in progress had it called not at all.
C1_OneResponsePerCall ==
    \A b \in DOMAIN batches :
        IF Finished(batches[b])
        THEN /\ Cardinality(SendsOf(b)) = 1
             /\ \A k \in SendsOf(b) : AllAnswered(batches[b], sent[k].functionResponses)
        ELSE SendsOf(b) = {}

\* a finished batch of an unregistered call and a call whose handler threw,
\* beside a finished empty batch
C1_Witness ==
    /\ \E b \in DOMAIN batches :
          /\ batches[b].pc = "done"
          /\ Len(batches[b].calls) = 2
          /\ ~toolImplementation(batches[b].calls[1].name)
          /\ InTrace(batches[b], "threw", 2)
    /\ \E b \in DOMAIN batches : batches[b].pc = "done" /\ batches[b].calls = <<>>

(* -------------------------------- C2 ----------------------------------- *)

\* the step starts the run of onToolCall for batch b
Starts(b) == b \notin DOMAIN batches /\ b \in DOMAIN batches'

\* the step ends the run of onToolCall for batch b
Ends(b) ==
    /\ b \in DOMAIN batches'
    /\ Finished(batches'[b])
    /\ b \in DOMAIN batches => ~Finished(batches[b])

\* C2: the run of onToolCall sets the flag to true first, before any handler
\* is invoked (the flag is true when the run reaches its first await), and the
\* step in which the run ends, by a return or by an exception out of
\* sendToolResponse, leaves the flag false, the reset being the last thing done.
C2_FlagSetAndReset ==
    [][\A b \in 1..MaxBatches :
          /\ Starts(b) =>
                /\ batches'[b].trace[1] = <<"awaiting:=true", 0>>
                /\ ~Finished(batches'[b]) => isAwaiting'
          /\ Ends(b) =>
                /\ ~isAwaiting'
                /\ batches'[b].trace[Len(batches'[b].trace)] = <<"awaiting:=false", 0>>]_vars

\* a run that ended by an exception out of sendToolResponse, after a handler
\* threw, with the flag false
C2_Witness ==
    \E b \in DOMAIN batches :
        /\ batches[b].pc = "failed"
        /\ \E k \in DOMAIN batches[b].calls : InTrace(batches[b], "threw", k)
        /\ ~isAwaiting

(* -------------------------------- C3 ----------------------------------- *)

\* C3: a call whose name is not in the registry has, as soon as the loop has
\* reached it, a response under its id whose result shows the name; no handler
\* was invoked and no failure turn was appended for it; the loop went on to the
\* call after it in the same run; and a run ends by an exception only when
\* sendToolResponse found no active session.
C3_UnknownTool ==
    \A b \in DOMAIN batches :
        LET bt == batches[b]
            fr == bt.functionResponses
        IN  \A k \in 1..bt.i :
               ~toolImplementation(bt.calls[k].name) =>
                  /\ \E m \in DOMAIN fr :
                        /\ fr[m].id = bt.calls[k].id
                        /\ Contains(fr[m].response.result, bt.calls[k].name)
                  /\ ~InTrace(bt, "invoke", k)
                  /\ ~InTrace(bt, "errorTurn", k)
                  /\ \A j \in DOMAIN turns : turns[j].text # errorMessage(bt.calls[k])
                  /\ k < Len(bt.calls) => bt.i > k
                  /\ bt.pc = "failed" => \A n \in SendsOf(b) : sent[n].session = 0

\* a batch that ended normally, of an unregistered call followed by a
\* registered one whose handler returned
C3_Witness ==
    \E b \in DOMAIN batches :
        /\ batches[b].pc = "done"
        /\ Len(batches[b].calls) = 2
        /\ ~toolImplementation(batches[b].calls[1].name)
        /\ InTrace(batches[b], "returned", 2)

(* -------------------------------- C4 ----------------------------------- *)

\* the step resumes batch b with its awaited handler having thrown
Threw(b) ==
    /\ b \in DOMAIN batches
    /\ batches[b].pc = "awaiting"
    /\ ~InTrace(batches[b], "threw", batches[b].i)
    /\ InTrace(batches'[b], "threw", batches[b].i)

\* C4: the step in which a handler's failure is handled appends one system
\* turn, the failure notice naming the tool, as the next turn of the
\* transcript; records under the call's id a response whose result is that
\* notice; and goes on to the next call of the batch, which is triggered and
\* dispatched or answered in the same step; a batch that ends has a response
\* for every one of its calls.
C4_FailureIsolated ==
    [][\A b \in 1..MaxBatches :
          Threw(b) =>
             LET k      == batches[b].i
                 fc     == batches[b].calls[k]
                 bt     == batches'[b]
                 fr     == bt.functionResponses
                 notice == turns'[Len(turns) + 1]
                 new    == (Len(turns) + 1)..Len(turns')
             IN  /\ Len(turns') > Len(turns)
                 /\ notice.role = "system"
                 /\ notice.isFinal
                 /\ notice.text = errorMessage(fc)
                 /\ Contains(notice.text, fc.name)
                 /\ Cardinality({j \in new : turns'[j].text = errorMessage(fc)}) = 1
                 /\ \E m \in DOMAIN fr :
                       fr[m].id = fc.id /\ fr[m].response.result = notice.text
                 /\ k < Len(bt.calls) =>
                       /\ InTrace(bt, "trigger", k + 1)
                       /\ IF toolImplementation(bt.calls[k + 1].name)
                          THEN InTrace(bt, "invoke", k + 1)
                          ELSE ResponsesFor(fr, bt.calls[k + 1].id) # {}
                 /\ Finished(bt) => AllAnswered(bt, fr)]_vars

\* a finished batch whose first handler threw and whose second returned
C4_Witness ==
    \E b \in DOMAIN batches :
        /\ batches[b].pc = "done"
        /\ InTrace(batches[b], "threw", 1)
        /\ InTrace(batches[b], "returned", 2)

(* -------------------------------- C5 ----------------------------------- *)

\* the step is the delivery of an 'interrupted' event to onInterrupted
InterruptedStep ==
    \E s \in 1..MaxSessions :
        Interrupted(s) /\ Subscribed(sessions[s].client, "interrupted")

\* C5: an interrupted event leaves the length of the transcript and every
\* turn but the last as they are; of the last turn it changes at most isFinal,
\* which is true afterwards when the turn was not final, and the transcript is
\* left as it is when it is empty or its last turn is final.
C5_InterruptedFrame ==
    [][InterruptedStep =>
          /\ Len(turns') = Len(turns)
          /\ \A j \in 1..(Len(turns) - 1) : turns'[j] = turns[j]
          /\ turns # <<>> =>
                /\ turns'[Len(turns)].role = turns[Len(turns)].role
                /\ turns'[Len(turns)].text = turns[Len(turns)].text
                /\ turns'[Len(turns)].isFinal
          /\ (turns = <<>> \/ turns[Len(turns)].isFinal) => turns' = turns]_vars

\* a streamed turn, appended non-final, is final and is the last of a
\* transcript of several turns
C5_Witness ==
    /\ Len(turns) >= 2
    /\ Len(turns) \in Streamed
    /\ turns[Len(turns)].isFinal

(* -------------------------------- C6 ----------------------------------- *)

\* the connections of client c that are not torn down
LiveOf(ss, c) == {k \in DOMAIN ss : ss[k].client = c /\ ss[k].st # "closed"}

\* C6: a client never has two connections that are not torn down, and the
\* step of connect() that begins a connection leaves the transcript and the
\* markers empty, every earlier connection of the client torn down and the
\* new connection as the client's only one; so of two connect() calls in
\* succession, the second also issued while the first connection is still
\* being established, only the second's connection remains.
C6_ConnectTwice ==
    [][/\ \A c \in 1..MaxEffects : Cardinality(LiveOf(sessions', c)) <= 1
       /\ Len(sessions') > Len(sessions) =>
             /\ turns' = <<>>
             /\ markers' = {}
             /\ \A k \in DOMAIN sessions :
                   sessions[k].client = client => sessions'[k].st = "closed"
             /\ LiveOf(sessions', client) = {Len(sessions')}]_vars

\* two connections of one client: the first torn down before its setup
\* completed, the second open, the flag true
C6_Witness ==
    /\ Len(sessions) = 2
    /\ sessions[1].client = sessions[2].client
    /\ sessions[1].st = "closed"
    /\ ~sessions[1].setup
    /\ sessions[2].st = "open"
    /\ connected

(* -------------------------------- C7 ----------------------------------- *)

\* the step is the delivery to onClose of the 'close' event of session s
CloseStep(s, r) == SessionClose(s, r) /\ Subscribed(sessions[s].client, "close")

\* the transcript gained exactly one turn, final, of the given role, saying
\* that the session ended and showing the reason
CloseTurnAppended(role, r) ==
    /\ Len(turns') = Len(turns) + 1
    /\ SubSeq(turns', 1, Len(turns)) = turns
    /\ turns'[Len(turns')].role = role
    /\ turns'[Len(turns')].isFinal
    /\ turns'[Len(turns')].text.tmpl = "Session ended. Press Play to start a new session. <1>"
    /\ Contains(turns'[Len(turns')].text, r)

\* C7 as claimed: the turn appended on a close event has the role system.
C7_CloseTurnSystem ==
    [][\A s \in 1..MaxSessions, r \in Reasons :
          CloseStep(s, r) => ~connected' /\ CloseTurnAppended("system", r)]_vars

\* C7, amended: on a close event the orchestrator marks the session
\* disconnected and appends exactly one final turn, of role agent, whose text
\* says that the session ended and includes the reason of the event.
C7_CloseTurnAgent ==
    [][\A s \in 1..MaxSessions, r \in Reasons :
          CloseStep(s, r) => ~connected' /\ CloseTurnAppended("agent", r)]_vars

\* a session that was open is closed, the flag is false and the transcript
\* ends with the notice carrying the server's reason
C7_Witness ==
    /\ \E s \in DOMAIN sessions : sessions[s].st = "closed" /\ sessions[s].setup
    /\ ~connected
    /\ turns # <<>>
    /\ turns[Len(turns)].text = closeMessage("quota exceeded")

(* -------------------------------- C8 ----------------------------------- *)

\* C8: connect() called with the empty configuration fails with a
\* configuration error and leaves the transcript, the markers and the
\* connections as they are.
C8_ConnectRequiresConfig ==
    [][(Connect /\ config = "emptyObject") =>
          /\ lastConnect'.threw
          /\ UNCHANGED <<turns, markers, sessions>>]_vars

(* -------------------------------- C9 ----------------------------------- *)

\* C9: no two clients hold an open connection at the same time, and the
\* connected flag is not true on account of a connection of a client that is
\* not the current one.
C9_OneActiveClient ==
    /\ Cardinality({sessions[k].client : k \in OpenSessions}) <= 1
    /\ connected =>
          ~(/\ ActiveSession(sessions, client) = 0
            /\ \E k \in OpenSessions : sessions[k].client # client)

(* -------------------------------- C10 ---------------------------------- *)

\* the camera target the claim names for the parameters
ExpectedTarget(params) ==
    [center |-> [lat |-> params.latitude, lng |-> params.longitude, altitude |-> 750],
     range |-> 2500, tilt |-> 50, heading |-> 0, roll |-> 0]

\* whether the call did ev
HasDone(f, ev) == \E j \in DOMAIN f.trace : f.trace[j] = ev

\* where the call did ev
At(f, ev) == CHOOSE j \in DOMAIN f.trace : f.trace[j] = ev

\* C10: a call of fetchAgriculturalRecommendations that got a 2xx response
\* with a body that parses returns, and a call that returned has set the
\* camera target exactly once, to the target named above for its own
\* parameters, after it received the response and before it returned; the step
\* in which it returns leaves that target and preventAutoFrame = true in the
\* map store; a call that has not returned has set no camera target.
C10_ZoomOnSuccess ==
    [][\A c \in 1..MaxFetches :
          c \in DOMAIN fetches' =>
             LET f == fetches'[c]
             IN  /\ (ok(f.status) /\ f.body = "json" /\ f.pc \in {"returned", "threw"})
                       => f.pc = "returned"
                 /\ IF f.pc = "returned"
                    THEN /\ f.zooms = <<ExpectedTarget(f.params)>>
                         /\ At(f, "response") < At(f, "setCameraTarget")
                         /\ At(f, "setCameraTarget") < At(f, "return")
                         /\ At(f, "setPreventAutoFrame") < At(f, "return")
                         /\ fetches[c].pc # "returned" =>
                               /\ cameraTarget' = ExpectedTarget(f.params)
                               /\ preventAutoFrame'
                    ELSE f.zooms = <<>>]_vars

\* a call for latitude 41, longitude -74 returned and the map store holds its
\* target and the flag
C10_Witness ==
    \E c \in DOMAIN fetches :
        /\ fetches[c].pc = "returned"
        /\ fetches[c].params.latitude = 41
        /\ fetches[c].params.longitude = -74
        /\ cameraTarget = ExpectedTarget(fetches[c].params)
        /\ preventAutoFrame

(* -------------------------------- C11 ---------------------------------- *)

\* the step in which call c fails
Fails(c) ==
    /\ c \in DOMAIN fetches'
    /\ fetches'[c].pc = "threw"
    /\ c \in DOMAIN fetches => fetches[c].pc # "threw"

\* the call got a response with a status outside 200..299
NonOk(f) == HasDone(f, "response") /\ ~ok(f.status)

\* C11: a call of fetchAgriculturalRecommendations that got a response with a
\* non-2xx status never returns and never reads the body as JSON; once the
\* body of that response has been read the call fails with an error whose
\* message is the request-failed text carrying the response's status and the
\* response's body; and a call that fails, after a non-2xx response or because
\* the request failed at network level, has set no camera target, the step in
\* which it fails leaving the camera target and preventAutoFrame as they were.
C11_NonOkFails ==
    [][\A c \in 1..MaxFetches :
          c \in DOMAIN fetches' =>
             LET f == fetches'[c]
             IN  /\ NonOk(f) => f.pc \in {"text", "threw"}
                 /\ (NonOk(f) /\ HasDone(f, "errorBody")) =>
                       /\ f.pc = "threw"
                       /\ f.error.message = "API request failed with status <1>: <2>"
                       /\ f.error.status = f.status
                       /\ f.error.body = f.body
                 /\ f.pc = "threw" => f.zooms = <<>>
                 /\ Fails(c) => UNCHANGED <<cameraTarget, preventAutoFrame>>]_vars

\* a call failed on a 429 whose body was read, while another call that returned
\* has its camera target and the flag still in place
C11_Witness ==
    /\ \E c \in DOMAIN fetches :
          /\ fetches[c].pc = "threw"
          /\ fetches[c].status = 429
          /\ fetches[c].body = "not json"
          /\ fetches[c].error.status = 429
          /\ fetches[c].error.body = "not json"
    /\ \E c \in DOMAIN fetches :
          /\ fetches[c].pc = "returned"
          /\ cameraTarget = ExpectedTarget(fetches[c].params)
          /\ preventAutoFrame

(* -------------------------------- C12 ---------------------------------- *)

\* the step is the call that makes the c-th record of the sequence
Called(calls, calls2, c) == c \notin DOMAIN calls /\ c \in DOMAIN calls2

\* the call failed with the configuration error and sent no request
ConfigurationError(f) ==
    /\ f.pc = "threw"
    /\ f.error.message = "Missing required environment variable: API_KEY"
    /\ f.request = <<>>

\* the call sent its request with the credential key
SentWith(f, key) ==
    /\ f.pc # "threw"
    /\ Len(f.request) = 1
    /\ f.request[1].key = key

\* a call made in this step, of any of the three functions, fails with the
\* configuration error, without a request and without a camera update,
\* exactly when key is empty, and sends its request with key otherwise
KeyDecides(key) ==
    /\ \A c \in 1..MaxFetches :
          Called(fetches, fetches', c) =>
             /\ ConfigurationError(fetches'[c]) <=> key = ""
             /\ key # "" => SentWith(fetches'[c], key)
             /\ fetches'[c].zooms = <<>>
             /\ UNCHANGED <<cameraTarget, preventAutoFrame>>
    /\ \A g \in 1..MaxGroundings :
          Called(groundings, groundings', g) =>
             /\ ConfigurationError(groundings'[g]) <=> key = ""
             /\ key # "" => SentWith(groundings'[g], key)
             /\ UNCHANGED <<cameraTarget, preventAutoFrame>>

\* C12 as claimed: the credential that decides is the one the environment
\* holds at the moment of the call.
C12_KeyAtCallTime == [][KeyDecides(envKey)]_vars

\* C12, amended: the credential is read from the environment once, when the
\* module is loaded, and kept in the constant API_KEY; each call of the three
\* functions fails with the configuration error, sending no request and making
\* no camera update, exactly when the credential was absent at that moment; a
\* credential set or removed later is not seen by any call.
C12_KeyAtModuleLoad ==
    /\ API_KEY = envKey
    /\ [][API_KEY' = API_KEY /\ KeyDecides(API_KEY)]_vars

\* the module was loaded without the credential, which was set afterwards:
\* a call of fetchAgriculturalRecommendations and a call of a maps-grounded
\* function have failed with the configuration error all the same
C12_Witness ==
    /\ envKey = "key"
    /\ API_KEY = ""
    /\ \E c \in DOMAIN fetches : ConfigurationError(fetches[c])
    /\ \E g \in DOMAIN groundings : ConfigurationError(groundings[g])

(* -------------------------------- C13 ---------------------------------- *)

\* C13: a call of disconnect(), whatever the state of the client's connection
\* (none, being established, open), leaves the client without a connection
\* that is not torn down and the connected flag false, leaves the transcript,
\* the markers and the configuration as they are, and leaves a state that a
\* second call of disconnect() would not change.
C13_DisconnectIdempotent ==
    [][Disconnect =>
          /\ LiveOf(sessions', client') = {}
          /\ ~connected'
          /\ UNCHANGED <<turns, markers, config, client, handlers, isAwaiting>>
          /\ Len(sessions') = Len(sessions)
          /\ clientDisconnect(sessions', client') = sessions']_vars

\* disconnect() ended a connection that was still being established (only it
\* ends a connection of the subscribed client and leaves the transcript
\* empty), after the client had had an open connection, and the flag is false
C13_Witness ==
    /\ effect = 1
    /\ Len(sessions) = 2
    /\ sessions[1].st = "closed" /\ sessions[1].setup
    /\ sessions[2].st = "closed" /\ ~sessions[2].setup
    /\ ~connected
    /\ turns = <<>>

(* -------------------------------- C14 ---------------------------------- *)

\* where the run did ev for its k-th call, 0 if it did not
Pos(bt, ev, k) ==
    IF InTrace(bt, ev, k)
    THEN CHOOSE j \in DOMAIN bt.trace : bt.trace[j] = <<ev, k>>
    ELSE 0

\* C14: in every batch a call is reached only after every call before it in
\* the array was reached, had its handler (if it has one) invoked and settled
\* by a return or a throw, and had its response recorded; the responses
\* recorded so far are those of the first calls of the batch in array order;
\* and the list passed to sendToolResponse has the ids and names of the
\* batch's functionCalls, position by position.
C14_InArrayOrder ==
    \A b \in DOMAIN batches :
        LET bt == batches[b]
            fr == bt.functionResponses
        IN  /\ \A k \in DOMAIN bt.calls : \A j \in DOMAIN bt.calls :
                  (k < j /\ InTrace(bt, "trigger", j)) =>
                     /\ 0 < Pos(bt, "trigger", k)
                     /\ Pos(bt, "trigger", k) < Pos(bt, "trigger", j)
                     /\ 0 < Pos(bt, "push", k)
                     /\ Pos(bt, "push", k) < Pos(bt, "trigger", j)
                     /\ InTrace(bt, "invoke", k) =>
                           LET settled == Pos(bt, "returned", k) + Pos(bt, "threw", k)
                           IN  /\ Pos(bt, "invoke", k) < settled
                               /\ settled < Pos(bt, "trigger", j)
                               /\ ~(InTrace(bt, "returned", k) /\ InTrace(bt, "threw", k))
            /\ Len(fr) <= Len(bt.calls)
            /\ \A m \in DOMAIN fr :
                  fr[m].id = bt.calls[m].id /\ fr[m].name = bt.calls[m].name
            /\ \A n \in SendsOf(b) :
                  /\ Len(sent[n].functionResponses) = Len(bt.calls)
                  /\ \A m \in DOMAIN bt.calls :
                        /\ sent[n].functionResponses[m].id = bt.calls[m].id
                        /\ sent[n].functionResponses[m].name = bt.calls[m].name

\* a batch of two registered calls whose handlers both returned has been sent
C14_Witness ==
    \E b \in DOMAIN batches :
        /\ Len(batches[b].calls) = 2
        /\ InTrace(batches[b], "returned", 1)
        /\ InTrace(batches[b], "returned", 2)
        /\ SendsOf(b) # {}

(* -------------------------------- C15 ---------------------------------- *)

\* the turns of the transcript that onToolCall wrote: the system turns
SystemTurns == SelectSeq(turns, LAMBDA t : t.role = "system")

\* the turns the claim names for the calls 1..k of the run, as far as it got
RECURSIVE CallTurns(_, _)
CallTurns(bt, k) ==
    IF k = 0 THEN <<>>
    ELSE CallTurns(bt, k - 1)
         \o <<Turn("system", Text("Triggering function call: **<1>** json <2>",
                                  <<bt.calls[k].name, Stringify(bt.calls[k].args)>>, <<>>),
                   TRUE)>>
         \o (IF InTrace(bt, "threw", k)
             THEN <<Turn("system", Text("Error executing tool <1>.",
                                        <<bt.calls[k].name>>, <<>>), TRUE)>>
             ELSE <<>>)

\* the turn holding the whole response batch, once the run is past the loop
\* and if the batch produced a response
BatchTurn(bt, fr) ==
    IF Finished(bt) /\ Len(fr) > 0
    THEN <<Turn("system", Text("Function call response: json <json>", <<>>, fr), TRUE)>>
    ELSE <<>>

\* C15: while one batch only has been received, the system turns of the
\* transcript are, in this order: per call the run has reached, the
\* triggering turn, followed by the failure turn if its handler threw; then,
\* once the run has ended and if and only if the batch has a response (it has
\* a call), one turn holding the list that was passed to sendToolResponse. The
\* triggering turn of a call is appended before its handler is invoked, the
\* batch turn after the last response was recorded and before sendToolResponse
\* is called. A run of an empty batch appends no turn and calls
\* sendToolResponse with the empty list.
C15_TurnsOfOneBatch ==
    Len(batches) = 1 =>
        LET bt == batches[1]
            fr == bt.functionResponses
        IN  /\ SystemTurns = CallTurns(bt, bt.i) \o BatchTurn(bt, fr)
            /\ \A k \in 1..bt.i :
                  InTrace(bt, "invoke", k) =>
                     Pos(bt, "trigger", k) < Pos(bt, "invoke", k)
            /\ InTrace(bt, "responseTurn", 0) <=> (Finished(bt) /\ Len(bt.calls) > 0)
            /\ InTrace(bt, "responseTurn", 0) =>
                  /\ Pos(bt, "push", Len(bt.calls)) < Pos(bt, "responseTurn", 0)
                  /\ Pos(bt, "responseTurn", 0) < Pos(bt, "send", 0)
            /\ Finished(bt) =>
                  /\ Cardinality(SendsOf(1)) = 1
                  /\ \A n \in SendsOf(1) : sent[n].functionResponses = fr
            /\ (Finished(bt) /\ bt.calls = <<>>) =>
                  /\ SystemTurns = <<>>
                  /\ \A n \in SendsOf(1) : sent[n].functionResponses = <<>>

\* the only batch has ended: its first handler threw, its second call was
\* answered, and the transcript holds the four turns
C15_Witness ==
    /\ Len(batches) = 1
    /\ Finished(batches[1])
    /\ InTrace(batches[1], "threw", 1)
    /\ Len(batches[1].calls) = 2
    /\ Len(SystemTurns) = 4

(* -------------------------------- C16 ---------------------------------- *)

\* the handlers subscribed under the event name
HandlersOf(ev) == {h \in handlers : h.ev = ev}

\* C16: the handlers subscribed are at every time exactly the six that the
\* latest run of the effect registered on the current client, one per event
\* name; the teardown of a run of the effect leaves none of the handlers that
\* run had registered; an event of a session of a client that is not the
\* current one changes neither the connected flag, the transcript nor the
\* awaiting flag and starts no run of onToolCall; while the current client has
\* no session the flag stays as it is and no run starts; and a run of
\* onToolCall that starts belongs to the current client and the latest run of
\* the effect (a run that was awaiting a handler at the teardown goes on).
C16_Teardown ==
    /\ [](/\ handlers = Subscriptions(client, effect, EventNames)
          /\ \A ev \in EventNames : Cardinality(HandlersOf(ev)) = 1)
    /\ [][/\ effect' # effect =>
                handlers' \cap Subscriptions(client, effect, EventNames) = {}
          /\ \A s \in DOMAIN sessions :
                (sessions[s].client # client /\ sessions'[s] # sessions[s]) =>
                   UNCHANGED <<connected, turns, isAwaiting, batches, sent>>
          /\ (\A s \in DOMAIN sessions : sessions[s].client # client) =>
                connected' = connected /\ Len(batches') = Len(batches)
          /\ Len(batches') > Len(batches) =>
                /\ batches'[Len(batches')].client = client
                /\ batches'[Len(batches')].effect = effect]_vars

\* the effect ran again with a new client while the old client's session was
\* open; that session has closed since, and the close event was not
\* processed: the flag is still true and the transcript has no notice
C16_Witness ==
    /\ client = 2
    /\ Len(sessions) = 1
    /\ sessions[1].client = 1
    /\ sessions[1].st = "closed"
    /\ connected
    /\ \A j \in DOMAIN turns : turns[j].text # closeMessage("quota exceeded")

(* -------------------------------- C17 ---------------------------------- *)

\* the step is a clearing of the transcript by connect()
Clearing == Connect /\ ~Falsy(config)

\* the turn differs from what it was in nothing but isFinal, which went from
\* false to true
Finalised(old, new) ==
    /\ new.role = old.role
    /\ new.text = old.text
    /\ ~old.isFinal
    /\ new.isFinal

\* C17: a step that is not a clearing by connect() leaves every turn of the
\* transcript in its place, removes none, and changes no turn but, at most,
\* the last one, of which it changes nothing but isFinal, from false to true,
\* and then it appends nothing; otherwise it appends turns at the end or
\* leaves the transcript as it is.
C17_AppendOnly ==
    [][~Clearing =>
          /\ Len(turns') >= Len(turns)
          /\ \A j \in 1..(Len(turns) - 1) : turns'[j] = turns[j]
          /\ turns # <<>> =>
                \/ turns'[Len(turns)] = turns[Len(turns)]
                \/ /\ Finalised(turns[Len(turns)], turns'[Len(turns)])
                   /\ Len(turns') = Len(turns)]_vars

\* a streamed turn that an interruption made final, followed by the turns of a
\* tool call and by the notice of the close event, all later turns in place
C17_Witness ==
    /\ Len(turns) >= 4
    /\ 1 \in Streamed
    /\ turns[1].isFinal
    /\ turns[2].role = "system"
    /\ turns[Len(turns)].text = closeMessage("quota exceeded")

(* -------------------------------- C18 ---------------------------------- *)

OptionalNumbers == {"rainfall", "temperature", "farmSize"}

\* the form keeps the 0 the user enters into an optional number input
ZeroKept ==
    \A field \in OptionalNumbers :
        ChangeOptionalNumber(field, "0") => formData'[field] = Some(0)

\* the prompt of every request has the line of an optional number exactly
\* when the parameter is defined, with the parameter's value
LinesOfDefined ==
    \A c \in DOMAIN fetches' :
        Len(fetches'[c].request) = 1 =>
           \A field \in OptionalNumbers :
              fetches'[c].request[1].prompt[field] = fetches'[c].params[field]

\* C18: an optional number (rainfall, temperature, farmSize) of value 0 is a
\* supplied value: the form keeps 0 in its state when the user enters it, and
\* the prompt built by fetchAgriculturalRecommendations has the line of the
\* parameter exactly when the parameter is defined, 0 included.
C18_ZeroIsSupplied == [][ZeroKept /\ LinesOfDefined]_vars

(* -------------------------------- C19 ---------------------------------- *)

\* the retrieval configuration that pins grounding to the coordinate
Pinned(latitude, longitude) ==
    [retrievalConfig |-> [latLng |-> [latitude |-> latitude, longitude |-> longitude]]]

\* C19: the request of a call of fetchMapsGroundedResponseREST has a
\* toolConfig if and only if both lat and lng were passed, 0 counting as
\* passed, and then it is the retrieval configuration with latitude lat and
\* longitude lng; the request of a call of fetchAgriculturalRecommendations
\* always has it, with the latitude and the longitude of the parameters.
C19_RetrievalConfig ==
    /\ \A g \in DOMAIN groundings :
          LET f == groundings[g]
          IN  (f.fn = "REST" /\ Len(f.request) = 1) =>
                 IF f.args.lat.def /\ f.args.lng.def
                 THEN f.request[1].toolConfig = <<Pinned(f.args.lat.val, f.args.lng.val)>>
                 ELSE f.request[1].toolConfig = <<>>
    /\ \A c \in DOMAIN fetches :
          LET f == fetches[c]
          IN  Len(f.request) = 1 =>
                 f.request[1].toolConfig = Pinned(f.params.latitude, f.params.longitude)

\* a REST call with lat 0 and lng 41 sent its request with the coordinate
\* pinned, beside a call of fetchAgriculturalRecommendations for latitude 0
C19_Witness ==
    /\ \E g \in DOMAIN groundings :
          /\ groundings[g].fn = "REST"
          /\ groundings[g].args = [lat |-> Some(0), lng |-> Some(41)]
          /\ Len(groundings[g].request) = 1
          /\ groundings[g].request[1].toolConfig # <<>>
    /\ \E c \in DOMAIN fetches :
          /\ fetches[c].params.latitude = 0
          /\ Len(fetches[c].request) = 1

(* -------------------------------- C20 ---------------------------------- *)

\* the batches received whose sendToolResponse has not been called yet
InProgress == {b \in DOMAIN batches : ~Finished(batches[b])}

\* C20: the awaiting flag is true whenever a received batch has not had its
\* sendToolResponse called yet, also when a second toolcall event arrived while
\* a handler of an earlier batch was awaited: the end of one run of onToolCall
\* never clears the flag while another run is in progress.
C20_FlagWhileInProgress == InProgress # {} => isAwaiting

(* -------------------------------- C21 ---------------------------------- *)

\* batch b has been received and its run of onToolCall awaits a handler
Awaiting(b) == b \in DOMAIN batches /\ batches[b].pc = "awaiting"

\* batch b has been answered: its run has ended and sendToolResponse was called
Answered(b) == b \in DOMAIN batches /\ Finished(batches[b]) /\ SendsOf(b) # {}

\* the step resumes batch b because the handler it awaited returned or threw
Resumes(b) ==
    LET k == batches[b].i
    IN  \/ InTrace(batches'[b], "returned", k)
        \/ InTrace(batches'[b], "threw", k)

\* every received batch is answered in the end and the flag, once true,
\* becomes false again
EverySettledBatchAnswered ==
    /\ \A b \in 1..MaxBatches : (b \in DOMAIN batches) ~> Answered(b)
    /\ isAwaiting ~> ~isAwaiting

\* while a batch awaits a handler it has no response sent, the calls after the
\* awaited one are neither announced nor answered, and nothing but the settling
\* of that handler moves it on: there is no timeout
NoTimeout ==
    /\ [](\A b \in DOMAIN batches :
             Awaiting(b) =>
                /\ SendsOf(b) = {}
                /\ \A k \in DOMAIN batches[b].calls :
                      k > batches[b].i =>
                         /\ ~InTrace(batches[b], "trigger", k)
                         /\ ResponsesFor(batches[b].functionResponses,
                                         batches[b].calls[k].id) = {})
    /\ [][\A b \in DOMAIN batches :
             Awaiting(b) /\ batches'[b] # batches[b] => Resumes(b)]_vars

IdsReceivedIn(s) ==
    UNION {{batches[b].calls[j].id : j \in DOMAIN batches[b].calls} :
              b \in {n \in DOMAIN batches : batches[n].session = s}}

\* C22: every functionResponse that sendToolResponse delivered into a session
\* carries the id of a tool call received in that session; a batch awaiting a
\* handler across disconnect() or connect() delivers nothing into a later
\* session of the same client.
C22_ResponsesIntoOwnSession ==
    \A k \in DOMAIN sent :
        sent[k].session # 0 =>
           \A m \in DOMAIN sent[k].functionResponses :
              sent[k].functionResponses[m].id \in IdsReceivedIn(sent[k].session)

(* -------------------------------- C23 ---------------------------------- *)

\* batch b was received before the last connect() that cleared the transcript:
\* every such connect() opens a new session of the client
Stale(b) == batches[b].session < Len(sessions)

\* C23: once connect() has cleared the transcript, a batch received before it
\* and resumed after it appends no turn, neither a failure turn nor a
\* response-batch turn, and does not change the awaiting flag.
C23_StaleBatchSilent ==
    [][\A b \in DOMAIN batches :
          Stale(b) /\ batches'[b] # batches[b] =>
             /\ turns' = turns
             /\ isAwaiting' = isAwaiting]_vars

(* -------------------------------- C24 ---------------------------------- *)

\* the coordinates the form must not submit: a zero (which is also what the
\* inputs make of a text that is not a number) or a value out of range
Rejected(data) ==
    \/ data.latitude = 0 \/ data.longitude = 0
    \/ data.latitude < -90 \/ data.latitude > 90
    \/ data.longitude < -180 \/ data.longitude > 180

\* the step starts a run of handleSubmit
Submits == Len(submits') = Len(submits) + 1

\* a run of handleSubmit with rejected coordinates sends no request, leaves
\* isSubmitting and the shown response as they are and sets an error message;
\* any other run sends the request with the form's parameters and sets
\* isSubmitting
StartOfRun ==
    Submits =>
       LET r == submits'[Len(submits')]
       IN  /\ r.formData = formData
           /\ IF Rejected(formData)
              THEN /\ r.pc = "invalid"
                   /\ fetches' = fetches
                   /\ isSubmitting' = isSubmitting
                   /\ response' = response
                   /\ error' # null
              ELSE /\ r.pc = "awaiting"
                   /\ isSubmitting'
                   /\ Len(fetches') = Len(fetches) + 1
                   /\ fetches'[r.fetch].params = formData

\* isSubmitting is true for as long as a run awaits its request
TrueInFlight == \A n \in DOMAIN submits : submits[n].pc = "awaiting" => isSubmitting

\* the step ends the run n of handleSubmit
EndsRun(n) == submits[n].pc = "awaiting" /\ submits'[n].pc # "awaiting"

\* the run r called onSubmit once, with the parameters it submitted, after
\* it stored the response
CalledOnce(r) ==
    /\ r.onSubmit = <<r.formData>>
    /\ HasDone(r, "setResponse") /\ HasDone(r, "onSubmit")
    /\ \A i, j \in DOMAIN r.trace :
          r.trace[i] = "setResponse" /\ r.trace[j] = "onSubmit" => i < j

\* the two end states of the claim, in the state after the step
Success(r) ==
    /\ r.pc = "succeeded"
    /\ response' # null /\ error' = null
    /\ CalledOnce(r)

Failure(r) ==
    /\ r.pc = "failed"
    /\ error' # null /\ response' = null
    /\ r.onSubmit = <<>>

\* the end states the claim leaves out: a success of a form without the
\* onSubmit prop, and a run whose onSubmit threw after the response was stored
SuccessWithoutProp(r) ==
    /\ r.pc = "succeeded"
    /\ response' # null /\ error' = null
    /\ r.onSubmit = <<>>

CallbackThrew(r) ==
    /\ r.pc = "failed"
    /\ response' # null /\ error' = submitFailed
    /\ CalledOnce(r)

\* C24: a run of handleSubmit with a latitude or longitude that is 0, not a
\* number or out of range sends no request, leaves isSubmitting and the
\* response and sets an error; any other run keeps isSubmitting true while its
\* request is in flight and leaves it false when it ends, in one of these
\* states: success (response set, error null, onSubmit, if the prop is given,
\* called once with the submitted parameters after the response was stored),
\* failure of the request (error set, response null, onSubmit not called), or
\* onSubmit having thrown (response set and error set).
C24_RunOfHandleSubmit ==
    /\ []TrueInFlight
    /\ [][/\ StartOfRun
          /\ \A n \in DOMAIN submits :
                EndsRun(n) =>
                   /\ ~isSubmitting'
                   /\ \/ Success(submits'[n])
                      \/ Failure(submits'[n])
                      \/ SuccessWithoutProp(submits'[n])
                      \/ CallbackThrew(submits'[n])]_vars

\* C24 as stated: every run that sent its request ends in success with
\* onSubmit called exactly once, or in failure with the response null and
\* onSubmit not called.
C24_ExactlyTwoEndStates ==
    /\ []TrueInFlight
    /\ [][/\ StartOfRun
          /\ \A n \in DOMAIN submits :
                EndsRun(n) =>
                   /\ ~isSubmitting'
                   /\ \/ Success(submits'[n])
                      \/ Failure(submits'[n])]_vars

\* a run that ended in success after a 200 answer, onSubmit called with the
\* submitted parameters, beside the request it sent
C24_Witness ==
    \E n \in DOMAIN submits :
        /\ submits[n].pc = "succeeded"
        /\ submits[n].onSubmit = <<submits[n].formData>>
        /\ fetches[submits[n].fetch].status = 200
        /\ response # null /\ error = null /\ ~isSubmitting

====
